---- MODULE Spec2Model ----
(***************************************************************************)
(* A model of the vendor form filler: form_filler_engine.py (read_form,    *)
(* map_fields, fill_xlsx, fill_docx, fill_pdf, fill_form) and the /fill    *)
(* endpoint of api.py.                                                     *)
(*                                                                         *)
(* Text is a sequence of one-character strings, so that lower(), strip(),  *)
(* rstrip(":"), str.replace, the "in" substring test and the regular       *)
(* expressions of the source are computed character by character.  Three   *)
(* fixed strings that are only ever concatenated or compared as a whole    *)
(* ("FILLED_", "_FILLED", "_fill_guide.txt") are kept as one element.      *)
(***************************************************************************)
EXTENDS Integers, Sequences, FiniteSets, TLC

\* ------------------------------------------------------------------ text

Upper == <<"A","B","C","D","E","F","G","H","I","J","K","L","M",
           "N","O","P","Q","R","S","T","U","V","W","X","Y","Z">>

LowerLetters == <<"a","b","c","d","e","f","g","h","i","j","k","l","m",
                  "n","o","p","q","r","s","t","u","v","w","x","y","z">>

Digits == <<"1","2","3","4","5","6","7","8","9">>

\* str.lower() on one character
LowerChar(c) ==
    IF \E i \in 1..Len(Upper) : Upper[i] = c
    THEN LowerLetters[CHOOSE i \in 1..Len(Upper) : Upper[i] = c]
    ELSE c

\* str.lower()
Lower(t) == [i \in 1..Len(t) |-> LowerChar(t[i])]

IsSpace(c) == c \in {" ", "\n"}

RECURSIVE LStrip(_)
LStrip(t) == IF t # <<>> /\ IsSpace(Head(t)) THEN LStrip(Tail(t)) ELSE t

RECURSIVE RStrip(_)
RStrip(t) ==
    IF t # <<>> /\ IsSpace(t[Len(t)]) THEN RStrip(SubSeq(t, 1, Len(t) - 1)) ELSE t

\* str.strip()
Strip(t) == RStrip(LStrip(t))

\* str.rstrip(":")
RECURSIVE RStripColon(_)
RStripColon(t) ==
    IF t # <<>> /\ t[Len(t)] = ":" THEN RStripColon(SubSeq(t, 1, Len(t) - 1)) ELSE t

\* s.startswith(p)
StartsWith(s, p) == Len(p) <= Len(s) /\ SubSeq(s, 1, Len(p)) = p

\* the positions at which p occurs in s
Occurrences(p, s) ==
    {i \in 1..(Len(s) - Len(p) + 1) : SubSeq(s, i, i + Len(p) - 1) = p}

\* the Python test "p in s" on strings
Contains(p, s) == p = <<>> \/ Occurrences(p, s) # {}

\* str.replace(old, new): every non-overlapping occurrence, left to right
RECURSIVE Replace(_, _, _)
Replace(s, old, new) ==
    IF s = <<>> THEN <<>>
    ELSE IF StartsWith(s, old)
         THEN new \o Replace(SubSeq(s, Len(old) + 1, Len(s)), old, new)
         ELSE <<Head(s)>> \o Replace(Tail(s), old, new)

\* re.sub(r'\s*\(.*?\)\s*', '', t): each "(...)" group, shortest first, with
\* the white space around it
RECURSIVE RemoveParens(_)
RemoveParens(t) ==
    LET opens == {i \in 1..Len(t) : t[i] = "(" /\ \E j \in (i+1)..Len(t) : t[j] = ")"}
    IN IF opens = {} THEN t
       ELSE LET o == CHOOSE i \in opens : \A k \in opens : i <= k
                c == CHOOSE j \in (o+1)..Len(t) :
                        t[j] = ")" /\ \A k \in (o+1)..(j-1) : t[k] # ")"
                before == RStrip(SubSeq(t, 1, o - 1))
                after == LStrip(SubSeq(t, c + 1, Len(t)))
            IN before \o RemoveParens(after)

\* Path(name).suffix: from the last dot, when that dot is neither the first
\* nor the last character of the name
Suffix(name) ==
    LET dots == {i \in 1..Len(name) : name[i] = "."}
        last == CHOOSE i \in dots : \A k \in dots : k <= i
    IN IF dots # {} /\ 1 < last /\ last < Len(name)
       THEN SubSeq(name, last, Len(name))
       ELSE <<>>

\* Path(name).stem
Stem(name) == SubSeq(name, 1, Len(name) - Len(Suffix(name)))

\* ---------------------------------------------------------------- values

\* Python's None, and a key that dict.get does not find
None == <<"<None>">>

NullText == <<"n","u","l","l">>
Acme == <<"A","c","m","e">>
Zed == <<"Z","e","d">>

\* a writer's test without the comparison with the "null" sentinel
UsableNoSentinel(value) == value # None /\ value # <<>>

\* the test "value and value != 'null'" of every writer and of fill_form
Usable(value) == value # None /\ value # <<>> /\ value # NullText

\* a mapping object of the service's JSON array
Mapping(cell, label, value, confidence) ==
    [form_cell |-> cell, form_label |-> label, value |-> value,
     confidence |-> confidence]

\* the sequences over S of length at most n
SeqsUpTo(S, n) == UNION {[1..k -> S] : k \in 0..n}

\* the largest mapping sequence the service returns in the model
MaxMaps == 2

\* ------------------------------------------------------------ Python dict

\* A dict is the sequence of its <<key, value>> items in insertion order.
DictKeys(d) == {d[i][1] : i \in 1..Len(d)}

DictGet(d, k) == d[CHOOSE i \in 1..Len(d) : d[i][1] = k][2]

\* dict.setdefault in place of the assignment: a known key keeps its value
DictSetDefault(d, k, v) ==
    IF k \in DictKeys(d) THEN d ELSE Append(d, <<k, v>>)

\* d[k] = v: a known key keeps its place, a new key is appended
DictSet(d, k, v) ==
    IF k \in DictKeys(d)
    THEN [i \in 1..Len(d) |-> IF d[i][1] = k THEN <<k, v>> ELSE d[i]]
    ELSE Append(d, <<k, v>>)

\* ------------------------------------------------------------ spreadsheet

\* openpyxl.utils.coordinate_to_tuple: "B3" -> (3, 2)
CoordinateToTuple(ref) ==
    <<CHOOSE r \in 1..Len(Digits) : Digits[r] = ref[2],
      CHOOSE c \in 1..Len(Upper) : Upper[c] = ref[1]>>

A1 == <<"A","1">>
B1 == <<"B","1">>
A2 == <<"A","2">>
B3 == <<"B","3">>

\* the cells of the active sheet, as (row, column)
SheetCoords == (1..3) \X (1..2)

CellRange(r0, c0, r1, c1) ==
    [min_row |-> r0, min_col |-> c0, max_row |-> r1, max_col |-> c1]

RangeCells(mc) == (mc.min_row..mc.max_row) \X (mc.min_col..mc.max_col)

\* cells_to_fill of fill_xlsx: the last usable mapping of a cell wins
RECURSIVE CellsToFill(_)
CellsToFill(mappings) ==
    IF mappings = <<>> THEN <<>>
    ELSE LET m == mappings[Len(mappings)]
             d == CellsToFill(SubSeq(mappings, 1, Len(mappings) - 1))
         IN IF m.form_cell # None /\ m.form_cell # <<>> /\ Usable(m.value)
            THEN DictSet(d, m.form_cell, m.value)
            ELSE d

\* the unmerge test without the exception for the anchor
HitsAnyCell(mc, cell_ref) ==
    LET rc == CoordinateToTuple(cell_ref)
    IN /\ mc.min_row <= rc[1] /\ rc[1] <= mc.max_row
       /\ mc.min_col <= rc[2] /\ rc[2] <= mc.max_col

\* the test of the unmerge loop: the cell lies in the range and is not its
\* top-left anchor
HitsNonAnchor(mc, cell_ref) ==
    LET rc == CoordinateToTuple(cell_ref)
        row == rc[1]
        col == rc[2]
    IN /\ mc.min_row <= row /\ row <= mc.max_row
       /\ mc.min_col <= col /\ col <= mc.max_col
       /\ ~(row = mc.min_row /\ col = mc.min_col)

\* the merged ranges left by the unmerge loop
Unmerged(merged, cells_to_fill) ==
    {mc \in merged : ~\E k \in DictKeys(cells_to_fill) : HitsNonAnchor(mc, k)}

\* the fill loop: ws[cell] = value for every item, in dict order
RECURSIVE WriteCells(_, _)
WriteCells(cells, items) ==
    IF items = <<>> THEN cells
    ELSE WriteCells([cells EXCEPT ![CoordinateToTuple(items[1][1])] = items[1][2]],
                    Tail(items))

\* fill_xlsx: the saved workbook and the returned count
fill_xlsx(wb, mappings) ==
    LET cells_to_fill == CellsToFill(mappings)
    IN [wb |-> [cells |-> WriteCells(wb.cells, cells_to_fill),
                merged |-> Unmerged(wb.merged, cells_to_fill)],
        filled |-> Len(cells_to_fill)]

\* --------------------------------------------------------- word processor

\* A paragraph is the sequence of its runs' texts; a table cell is the
\* sequence of its paragraphs; a row is the sequence of the grid cells' tc
\* elements (a merged cell repeats its tc) with each tc's content.

RECURSIVE Concat(_)
Concat(texts) == IF texts = <<>> THEN <<>> ELSE Head(texts) \o Concat(Tail(texts))

\* paragraph.text
ParaText(para) == Concat(para)

\* cell.text: the paragraphs' texts joined by a line break
RECURSIVE CellText(_)
CellText(cell) ==
    IF cell = <<>> THEN <<>>
    ELSE IF Len(cell) = 1 THEN ParaText(cell[1])
    ELSE ParaText(cell[1]) \o <<"\n">> \o CellText(Tail(cell))

\* label_map of fill_docx: the label stripped, lowered, without its trailing
\* colons, and again without its parenthetical notes
RECURSIVE DocxLabelMap(_)
DocxLabelMap(mappings) ==
    IF mappings = <<>> THEN <<>>
    ELSE LET m == mappings[Len(mappings)]
             d == DocxLabelMap(SubSeq(mappings, 1, Len(mappings) - 1))
             label == RStripColon(Lower(Strip(m.form_label)))
             clean == Strip(RemoveParens(label))
         IN IF label # <<>> /\ Usable(m.value)
            THEN LET d1 == DictSet(d, label, m.value)
                 IN IF clean # <<>> /\ clean # label
                    THEN DictSet(d1, clean, m.value)
                    ELSE d1
            ELSE d

\* the items of label_map that the fuzzy test accepts, in dict order
FuzzyHits(label_map, cell_text) ==
    SelectSeq(label_map,
              LAMBDA it : Contains(it[1], cell_text) \/ Contains(cell_text, it[1]))

\* matched_value of the table strategy (None: no label matches)
MatchedValue(label_map, cell_text) ==
    LET cell_text_clean == RStripColon(Strip(RemoveParens(cell_text)))
    IN IF cell_text \in DictKeys(label_map) THEN DictGet(label_map, cell_text)
       ELSE IF cell_text_clean # <<>> /\ cell_text_clean \in DictKeys(label_map)
            THEN DictGet(label_map, cell_text_clean)
       ELSE IF FuzzyHits(label_map, cell_text) # <<>>
            THEN FuzzyHits(label_map, cell_text)[1][2]
       ELSE None

\* unique_cells: the row's tc elements without the merged duplicates
RECURSIVE UniqueCells(_)
UniqueCells(tcs) ==
    IF tcs = <<>> THEN <<>>
    ELSE LET seen == UniqueCells(SubSeq(tcs, 1, Len(tcs) - 1))
             tc == tcs[Len(tcs)]
         IN IF \E i \in 1..Len(seen) : seen[i] = tc THEN seen ELSE Append(seen, tc)

\* clear every run of the answer cell, then put the value in the first
\* paragraph: in its first run, or in a new run
WriteAnswer(cell, value) ==
    LET cleared == [p \in 1..Len(cell) |-> [r \in 1..Len(cell[p]) |-> <<>>]]
    IN [cleared EXCEPT ![1] = IF cleared[1] # <<>>
                              THEN [cleared[1] EXCEPT ![1] = value]
                              ELSE <<value>>]

\* the loop over unique_cells from index i on; the cells' text is read as
\* it stands when its turn comes
RECURSIVE FillRowFrom(_, _, _, _)
FillRowFrom(row, label_map, i, filled) ==
    LET unique_cells == UniqueCells(row.tcs)
    IN IF i > Len(unique_cells) THEN [row |-> row, filled |-> filled]
       ELSE LET cell_text == RStripColon(Lower(Strip(CellText(row.cells[unique_cells[i]]))))
                matched_value == MatchedValue(label_map, cell_text)
            IN IF cell_text = <<>> \/ matched_value = None \/ i + 1 > Len(unique_cells)
               THEN FillRowFrom(row, label_map, i + 1, filled)
               ELSE LET answer == unique_cells[i + 1]
                        existing == Strip(CellText(row.cells[answer]))
                    IN IF existing # <<>> /\ Contains(<<":">>, existing)
                       THEN FillRowFrom(row, label_map, i + 1, filled)
                       ELSE FillRowFrom(
                               [row EXCEPT !.cells[answer] = WriteAnswer(@, matched_value)],
                               label_map, i + 1, filled + 1)

\* strategy 1 over the rows of one table
RECURSIVE FillRows(_, _, _)
FillRows(rows, label_map, filled) ==
    IF rows = <<>> THEN [rows |-> <<>>, filled |-> filled]
    ELSE LET first == FillRowFrom(rows[1], label_map, 1, filled)
             rest == FillRows(Tail(rows), label_map, first.filled)
         IN [rows |-> <<first.row>> \o rest.rows, filled |-> rest.filled]

\* strategy 1 over the tables of the document
RECURSIVE FillTables(_, _, _)
FillTables(tables, label_map, filled) ==
    IF tables = <<>> THEN [tables |-> <<>>, filled |-> filled]
    ELSE LET first == FillRows(tables[1], label_map, filled)
             rest == FillTables(Tail(tables), label_map, first.filled)
         IN [tables |-> <<first.rows>> \o rest.tables, filled |-> rest.filled]

IsBlank(c) == c = "_" \/ IsSpace(c)

\* the colons of the text after which only blanks and underscores follow:
\* where r':\s*[_\s]*$' matches
BlankTailColons(text) ==
    {c \in 1..Len(text) : text[c] = ":" /\ \A k \in (c+1)..Len(text) : IsBlank(text[k])}

\* pattern.search(paragraph.text) for re.escape(label) + r'\s*:\s*[_\s]*$',
\* ignoring case
InlineMatch(label, text) ==
    \E c \in BlankTailColons(text) :
        \E i \in 1..c :
            /\ i + Len(label) <= c
            /\ Lower(SubSeq(text, i, i + Len(label) - 1)) = Lower(label)
            /\ \A k \in (i + Len(label))..(c - 1) : IsSpace(text[k])

\* re.sub(r'(:\s*)[_\s]*$', r'\1' + value, text): the colon and the white
\* space after it are kept, the blanks after them become the value
InlineSub(text, value) ==
    IF BlankTailColons(text) = {} THEN text
    ELSE LET c == CHOOSE x \in BlankTailColons(text) : TRUE
             spaces == CHOOSE n \in 0..(Len(text) - c) :
                          /\ \A k \in (c+1)..(c+n) : IsSpace(text[k])
                          /\ (c + n = Len(text) \/ ~IsSpace(text[c+n+1]))
         IN SubSeq(text, 1, c + spaces) \o value

\* the label loop of strategy 2 on one paragraph, from item i of label_map
RECURSIVE FillParaFrom(_, _, _, _)
FillParaFrom(para, label_map, i, filled) ==
    IF i > Len(label_map) THEN [para |-> para, filled |-> filled]
    ELSE IF InlineMatch(label_map[i][1], ParaText(para))
         THEN LET new_text == InlineSub(ParaText(para), label_map[i][2])
                  new_para == IF para # <<>>
                              THEN [r \in 1..Len(para) |->
                                       IF r = 1 THEN new_text ELSE <<>>]
                              ELSE <<new_text>>
              IN FillParaFrom(new_para, label_map, i + 1, filled + 1)
         ELSE FillParaFrom(para, label_map, i + 1, filled)

\* strategy 2 over the paragraphs of the document
RECURSIVE FillParas(_, _, _)
FillParas(paras, label_map, filled) ==
    IF paras = <<>> THEN [paras |-> <<>>, filled |-> filled]
    ELSE LET first == FillParaFrom(paras[1], label_map, 1, filled)
             rest == FillParas(Tail(paras), label_map, first.filled)
         IN [paras |-> <<first.para>> \o rest.paras, filled |-> rest.filled]

\* fill_docx: the saved document and the returned count
fill_docx(document, mappings) ==
    LET label_map == DocxLabelMap(mappings)
        t == FillTables(document.tables, label_map, 0)
        p == FillParas(document.paragraphs, label_map, t.filled)
    IN [document |-> [tables |-> t.tables, paragraphs |-> p.paras],
        filled |-> p.filled]

\* ------------------------------------------------------ fixed-layout page

\* label_map of _fill_pdf_fields: the label stripped and lowered
RECURSIVE FieldsLabelMap(_)
FieldsLabelMap(mappings) ==
    IF mappings = <<>> THEN <<>>
    ELSE LET m == mappings[Len(mappings)]
             d == FieldsLabelMap(SubSeq(mappings, 1, Len(mappings) - 1))
             label == Lower(Strip(m.form_label))
         IN IF label # <<>> /\ Usable(m.value) THEN DictSet(d, label, m.value) ELSE d

\* the loop over the interactive fields: the first label that is part of the
\* field's name, or that the name is part of, gives the field its value
RECURSIVE FillFields(_, _, _, _)
FillFields(fields, label_map, values, filled) ==
    IF fields = <<>> THEN [values |-> values, filled |-> filled]
    ELSE LET field_name == Head(fields)
             field_lower == Lower(Strip(field_name))
             hits == SelectSeq(label_map,
                        LAMBDA it : Contains(it[1], field_lower)
                                    \/ Contains(field_lower, it[1]))
         IN IF hits # <<>>
            THEN FillFields(Tail(fields), label_map,
                            DictSet(values, field_name, hits[1][2]), filled + 1)
            ELSE FillFields(Tail(fields), label_map, values, filled)

\* _fill_pdf_fields: the written document and the returned count
fill_pdf_fields(pdf, mappings) ==
    LET r == FillFields(pdf.fields, FieldsLabelMap(mappings), pdf.values, 0)
    IN [pdf |-> [pdf EXCEPT !.values = r.values], filled |-> r.filled]

\* label_map of _fill_pdf_overlay
RECURSIVE OverlayLabelMap(_)
OverlayLabelMap(mappings) ==
    IF mappings = <<>> THEN <<>>
    ELSE LET m == mappings[Len(mappings)]
             d == OverlayLabelMap(SubSeq(mappings, 1, Len(mappings) - 1))
             label == RStripColon(Lower(Strip(m.form_label)))
             clean == RStripColon(Strip(RemoveParens(label)))
         IN IF label # <<>> /\ Usable(m.value)
            THEN LET d1 == DictSet(d, label, m.value)
                 IN IF clean # <<>> /\ clean # label
                    THEN DictSet(d1, clean, m.value)
                    ELSE d1
            ELSE d

\* the pixel tolerance of the duplicate test
DupeTolerance == 5

Abs(n) == IF n < 0 THEN -n ELSE n

\* dupe: a recorded position within the tolerance in x and in y
IsDupe(field_positions, fill_x, fill_y) ==
    \E k \in 1..Len(field_positions) :
        /\ Abs(field_positions[k].y - fill_y) < DupeTolerance
        /\ Abs(field_positions[k].x - fill_x) < DupeTolerance

\* the labels of label_map that match a cell's text, in dict order
OverlayHits(label_map, text) ==
    LET text_lower == Strip(RStripColon(Lower(text)))
        text_clean == Strip(RemoveParens(text_lower))
    IN SelectSeq(label_map,
                 LAMBDA it : \/ text_lower = it[1]
                             \/ text_clean = it[1]
                             \/ (Contains(it[1], text_lower) /\ Len(it[1]) > 3))

\* the scan of the cells after a label cell, from index j: the first cell
\* with a box that is short or repeats the label takes the value
RECURSIVE ScanAnswer(_, _, _, _, _, _)
ScanAnswer(cell_texts, text, value, j, page, field_positions) ==
    IF j > Len(cell_texts) THEN field_positions
    ELSE LET next_text == cell_texts[j].text
             next_bbox == cell_texts[j].bbox
         IN IF next_bbox = None
            THEN ScanAnswer(cell_texts, text, value, j + 1, page, field_positions)
            ELSE IF Len(next_text) < 3 \/ next_text = text
            THEN LET fill_x == next_bbox[1] + 4
                     fill_y == next_bbox[2] + 3
                 IN IF IsDupe(field_positions, fill_x, fill_y)
                    THEN field_positions
                    ELSE Append(field_positions,
                                [page |-> page.index, x |-> fill_x, y |-> fill_y,
                                 value |-> value, font_size |-> 8,
                                 page_height |-> page.height,
                                 page_width |-> page.width])
            ELSE ScanAnswer(cell_texts, text, value, j + 1, page, field_positions)

\* the loop over the cells of one row, from index i
RECURSIVE MatchRowFrom(_, _, _, _, _)
MatchRowFrom(cell_texts, label_map, i, page, field_positions) ==
    IF i > Len(cell_texts) THEN field_positions
    ELSE LET text == cell_texts[i].text
             hits == OverlayHits(label_map, text)
         IN IF text = <<>> \/ cell_texts[i].bbox = None \/ hits = <<>>
            THEN MatchRowFrom(cell_texts, label_map, i + 1, page, field_positions)
            ELSE MatchRowFrom(cell_texts, label_map, i + 1, page,
                    ScanAnswer(cell_texts, text, hits[1][2], i + 1, page, field_positions))

RECURSIVE MatchRows(_, _, _, _)
MatchRows(rows, label_map, page, field_positions) ==
    IF rows = <<>> THEN field_positions
    ELSE MatchRows(Tail(rows), label_map, page,
                   MatchRowFrom(rows[1], label_map, 1, page, field_positions))

RECURSIVE MatchTables(_, _, _, _)
MatchTables(tables, label_map, page, field_positions) ==
    IF tables = <<>> THEN field_positions
    ELSE MatchTables(Tail(tables), label_map, page,
                     MatchRows(tables[1], label_map, page, field_positions))

\* the loop over the pages, from page index i (0-based, as enumerate gives)
RECURSIVE MatchPages(_, _, _, _)
MatchPages(pages, label_map, i, field_positions) ==
    IF i >= Len(pages) THEN field_positions
    ELSE MatchPages(pages, label_map, i + 1,
            MatchTables(pages[i + 1].tables, label_map,
                        [index |-> i, height |-> pages[i + 1].height,
                         width |-> pages[i + 1].width],
                        field_positions))

\* field_positions of _fill_pdf_overlay
FieldPositions(pdf, mappings) ==
    MatchPages(pdf.pages, OverlayLabelMap(mappings), 0, <<>>)

\* the overlay drawn on the pages: one string per recorded position of a
\* page the document has, at reportlab's y
OverlayDrawn(pdf, field_positions) ==
    SelectSeq([k \in 1..Len(field_positions) |->
                  [page |-> field_positions[k].page,
                   x |-> field_positions[k].x,
                   rl_y |-> field_positions[k].page_height - field_positions[k].y
                            - field_positions[k].font_size - 2,
                   text |-> field_positions[k].value]],
              LAMBDA d : d.page < Len(pdf.pages))

\* the lines of the fill guide after its three header lines, and the count
\* the guide branch returns
RECURSIVE GuideLines(_)
GuideLines(mappings) ==
    IF mappings = <<>> THEN <<>>
    ELSE LET m == mappings[Len(mappings)]
         IN Append(GuideLines(SubSeq(mappings, 1, Len(mappings) - 1)),
                   IF Usable(m.value)
                   THEN [label |-> m.form_label, value |-> m.value]
                   ELSE [label |-> m.form_label, value |-> <<"[NOT FOUND]">>])

GuideFilled(mappings) == Len(SelectSeq(mappings, LAMBDA m : Usable(m.value)))

PdfSuffix == <<".","p","d","f">>

GuideSuffix == <<"_fill_guide.txt">>

\* guide_path = output_path.replace(".pdf", "_fill_guide.txt")
GuidePath(output_path) == Replace(output_path, PdfSuffix, GuideSuffix)

\* ------------------------------------------------- mapping service client

\* The service's response text is a sequence of tokens: a code fence (three
\* backticks), the language tag after it, a line break, prose, or one JSON
\* text, which carries the value json.loads gives for it (kind "invalid":
\* none).  A JSON value is [kind, elems, size, items]: its type, the type of
\* its elements (of an object: its keys; of a string: its characters), what
\* len() gives for it, and the elements that are mapping objects.

Fence == [t |-> "fence"]
Tag == [t |-> "tag"]
NL == [t |-> "nl"]
Prose == [t |-> "prose"]
JsonText(value) == [t |-> "json", v |-> value]

Json(kind, elems, size) == [kind |-> kind, elems |-> elems, size |-> size, items |-> <<>>]

JArray(items) ==
    [kind |-> "array", elems |-> "object", size |-> Len(items), items |-> items]

\* JSON texts that are not an array of objects: {}, {"mappings": ...}, "",
\* "no", [1], 1, null, and a text json.loads rejects
OtherJson ==
    { Json("object", "string", 0), Json("object", "string", 1),
      Json("string", "string", 0), Json("string", "string", 2),
      Json("array", "number", 1),
      Json("number", "none", 0), Json("null", "none", 0),
      Json("invalid", "none", 0) }

\* the ways the service wraps its JSON text j
Wrappings(j) ==
    << <<JsonText(j)>>,
       <<NL, JsonText(j), NL>>,
       <<Fence, Tag, NL, JsonText(j), NL, Fence>>,
       <<Fence, NL, JsonText(j), NL, Fence, NL, Prose>>,
       <<Fence, Tag, NL, JsonText(j)>>,
       <<Fence, JsonText(j), Fence>>,
       <<Prose, NL, JsonText(j)>> >>

RECURSIVE LStripNL(_)
LStripNL(raw) == IF raw # <<>> /\ Head(raw).t = "nl" THEN LStripNL(Tail(raw)) ELSE raw

RECURSIVE RStripNL(_)
RStripNL(raw) ==
    IF raw # <<>> /\ raw[Len(raw)].t = "nl"
    THEN RStripNL(SubSeq(raw, 1, Len(raw) - 1))
    ELSE raw

\* response.content[0].text.strip()
StripText(raw) == RStripNL(LStripNL(raw))

Positions(raw, t) == {i \in 1..Len(raw) : raw[i].t = t}

\* the fence-stripping step and json.loads: [ok, value], ok FALSE when
\* split("\n", 1)[1] or json.loads raises
ParseResponse(response) ==
    LET raw == StripText(response)
        fenced == raw # <<>> /\ raw[1].t = "fence"
        nls == Positions(raw, "nl")
        first_nl == CHOOSE i \in nls : \A k \in nls : i <= k
        after == SubSeq(raw, first_nl + 1, Len(raw))
        fences == Positions(after, "fence")
        last_fence == CHOOSE i \in fences : \A k \in fences : k <= i
        inner == IF fences = {} THEN after ELSE SubSeq(after, 1, last_fence - 1)
        body == StripText(IF fenced THEN inner ELSE raw)
    IN IF fenced /\ nls = {} THEN [ok |-> FALSE, value |-> None]
       ELSE IF Len(body) = 1 /\ body[1].t = "json" /\ body[1].v.kind # "invalid"
            THEN [ok |-> TRUE, value |-> body[1].v]
            ELSE [ok |-> FALSE, value |-> None]

\* map_fields: what it returns for a response, or the error it raises
map_fields(response) == ParseResponse(response)

\* len(mappings) and the m.get(...) of the fillable count in fill_form:
\* whether they run without a TypeError or an AttributeError
Countable(mappings) ==
    /\ mappings.kind \in {"array", "object", "string"}
    /\ (mappings.size > 0 => mappings.elems = "object")

\* the mapping objects a writer's "for m in mappings" loop sees
Items(mappings) == mappings.items

\* ------------------------------------------------------------ the inputs

Name == <<"N","a","m","e">>
NameColon == <<"N","a","m","e",":">>
TaxVat == <<"T","a","x"," ","(","V",")">>
Tax == <<"T","a","x">>
Old == <<"O","l","d">>
Keep == <<"K","e","e","p">>
TaxCo == <<"T","a","x"," ","C","o">>

\* the mapping objects of a spreadsheet form
XlsxMappings ==
    { Mapping(A1, Name, Acme, "high"),
      Mapping(B1, Name, Zed, "high"),
      Mapping(B3, Name, Acme, "high"),
      Mapping(B3, Tax, Zed, "medium"),
      Mapping(B3, Tax, Acme, "none"),
      Mapping(B1, Tax, NullText, "none"),
      Mapping(B3, Tax, None, "none"),
      Mapping(A1, Tax, <<>>, "none"),
      Mapping(None, Name, Acme, "high") }

\* the merged ranges a sheet may hold
MergeCandidates ==
    { CellRange(1, 1, 1, 2), CellRange(2, 2, 3, 2), CellRange(2, 1, 3, 1),
      CellRange(1, 1, 3, 2) }

\* merged ranges of one sheet do not overlap
MergeSets ==
    { ms \in SUBSET MergeCandidates :
        \A a, b \in ms : a # b => RangeCells(a) \cap RangeCells(b) = {} }

IsAnchor(mc, rc) == rc[1] = mc.min_row /\ rc[2] = mc.min_col

\* a sheet: only a cell that is not covered by a merged range, or that
\* anchors one, holds a value
Sheet(values, merged) ==
    [cells |-> [rc \in SheetCoords |->
                   IF \E mc \in merged : rc \in RangeCells(mc) /\ ~IsAnchor(mc, rc)
                   THEN None ELSE values[rc]],
     merged |-> merged]

BlankValues == [rc \in SheetCoords |-> None]

SomeValues ==
    [rc \in SheetCoords |->
        IF rc = <<1, 1>> THEN Old ELSE IF rc = <<2, 1>> THEN Keep ELSE None]

Workbooks == {Sheet(v, ms) : v \in {BlankValues, SomeValues}, ms \in MergeSets}

\* the mapping objects of a word-processor form
DocxMappings ==
    { Mapping(None, Name, Acme, "high"),
      Mapping(None, NameColon, Zed, "high"),
      Mapping(None, Name, TaxCo, "high"),
      Mapping(None, TaxVat, Zed, "medium"),
      Mapping(None, Tax, Acme, "none"),
      Mapping(None, Name, NullText, "none"),
      Mapping(None, Tax, None, "none"),
      Mapping(None, TaxVat, <<>>, "none"),
      Mapping(None, <<>>, Acme, "high") }

\* a table cell of one paragraph with one run, and an empty one
OneRun(text) == << <<text>> >>
NoRun == << <<>> >>

TableRow(tcs, cells) == [tcs |-> tcs, cells |-> cells]

Documents ==
    { [tables |-> << << TableRow(<<1, 2>>, <<OneRun(NameColon), NoRun>>),
                        TableRow(<<1, 2>>, <<OneRun(TaxVat), OneRun(Old)>>) >> >>,
       paragraphs |-> << << <<"N","a","m","e",":"," ">>, <<"_","_">> >>,
                         << <<"H","i">> >> >>],
      [tables |-> << << TableRow(<<1, 1, 2, 3>>,
                                 <<OneRun(Name), OneRun(<<"T","a","x",":">>),
                                   << <<>>, <<Old>> >> >>) >> >>,
       paragraphs |-> << << <<"T","a","x"," ",":">> >> >>],
      [tables |-> << << TableRow(<<1, 2>>,
                                 <<OneRun(Name), << <<Old, Keep>>, <<Old>> >> >>) >>,
                     << TableRow(<<1>>, <<OneRun(Tax)>>) >> >>,
       paragraphs |-> <<>>],
      [tables |-> << << TableRow(<<1, 2, 3>>, <<OneRun(Name), NoRun, NoRun>>),
                        TableRow(<<1, 2>>, <<OneRun(Name), OneRun(Old)>>) >> >>,
       paragraphs |-> <<>>] }

\* the mapping objects of a fixed-layout-page form
PdfMappings ==
    { Mapping(None, Name, Acme, "high"),
      Mapping(None, TaxVat, Zed, "medium"),
      Mapping(None, Tax, Zed, "none"),
      Mapping(None, Name, NullText, "none"),
      Mapping(None, Tax, None, "none"),
      Mapping(None, NameColon, <<>>, "none") }

CellBox(text, x0, top, x1, bottom) == [text |-> text, bbox |-> <<x0, top, x1, bottom>>]
NoBox(text) == [text |-> text, bbox |-> None]

Page(tables) == [height |-> 100, width |-> 80, tables |-> tables]

NameRow == <<CellBox(NameColon, 10, 10, 40, 20), CellBox(<<>>, 40, 10, 80, 20)>>

TaxRow ==
    <<CellBox(TaxVat, 10, 20, 40, 30), CellBox(Keep, 40, 20, 50, 30),
      NoBox(<<>>), CellBox(<<"x">>, 50, 20, 80, 30)>>

Pdf(fields, pages) == [fields |-> fields, values |-> <<>>, pages |-> pages]

Pdfs ==
    { Pdf(<<Name, <<"I","D">>>>, <<Page(<<>>)>>),
      Pdf(<<Old>>, <<Page(<< <<NameRow>> >>)>>),
      Pdf(<<>>, <<Page(<< <<NameRow, TaxRow>> >>)>>),
      Pdf(<<>>, <<Page(<< <<NameRow>> >>), Page(<< <<NameRow>>, <<TaxRow>> >>)>>),
      Pdf(<<>>, <<Page(<<>>)>>),
      Pdf(<<>>, <<Page(<< << <<CellBox(Name, 10, 10, 40, 20),
                               CellBox(Keep, 40, 10, 80, 20)>> >> >>)>>) }

\* a form file: what a reader finds in it
File(kind, corrupt, body) == [kind |-> kind, corrupt |-> corrupt, body |-> body]

NoFile == File("none", FALSE, <<>>)

Ext_xlsx == <<".","x","l","s","x">>
Ext_docx == <<".","d","o","c","x">>
Ext_doc == <<".","d","o","c">>
Ext_pdf == <<".","p","d","f">>

\* the names a form file comes under
FormNames ==
    { <<"f">> \o Ext_xlsx, <<"f",".","X","l","s","x">>,
      <<"f">> \o Ext_docx, <<"f">> \o Ext_doc,
      <<"f">> \o Ext_pdf, <<"f",".","P","D","F">>,
      <<"f",".","p","d","f",".","p","d","f">>,
      <<"f",".","t","x","t">>, <<"f">> }

\* the files that come under a name
FilesNamed(name) ==
    LET ext == Lower(Suffix(name))
    IN IF ext = Ext_xlsx THEN {File("xlsx", c, wb) : c \in BOOLEAN, wb \in Workbooks}
       ELSE IF ext \in {Ext_docx, Ext_doc}
            THEN {File("docx", c, d) : c \in BOOLEAN, d \in Documents}
       ELSE IF ext = Ext_pdf THEN {File("pdf", c, d) : c \in BOOLEAN, d \in Pdfs}
       ELSE {File("other", FALSE, <<>>)}

\* the mapping sequences the service answers a form of a format with
MappingSeqs(fmt) ==
    SeqsUpTo(IF fmt = "xlsx" THEN XlsxMappings
             ELSE IF fmt = "docx" THEN DocxMappings ELSE PdfMappings, MaxMaps)

\* -------------------------------------------------------------- the state

VARIABLES
    pc,              \* where the request stands
    entry,           \* "api": the /fill endpoint; "cli": the command line
    form_name,       \* the form file's name
    file,            \* the form file
    output_path,     \* where the filled form goes
    reader,          \* the reader read_form dispatched to
    fmt,             \* form_content["format"]
    mappings,        \* what map_fields returned
    fs,              \* the files written: path -> content
    filled,          \* the count the writer returned
    field_positions, \* the positions _fill_pdf_overlay recorded
    result,          \* the summary fill_form returned
    served,          \* the path the endpoint answers with
    error,           \* the error that ended the request
    calls,           \* the stages invoked, in order
    pdf_states,      \* the states of fill_pdf entered, in order
    writes           \* the files written, in order, with the writing step

vars == <<pc, entry, form_name, file, output_path, reader, fmt, mappings, fs,
          filled, field_positions, result, served, error, calls, pdf_states,
          writes>>

NoJson == Json("none", "none", 0)

NoError == [stage |-> "none", kind |-> "none"]

Err(stage, kind) == [stage |-> stage, kind |-> kind]

NoResult ==
    [returned |-> FALSE, output_path |-> <<>>, format |-> "none",
     total_fields |-> 0, filled |-> 0, missing |-> <<>>]

NoFiles == [path \in {} |-> NoFile]

Init ==
    /\ pc = "idle"
    /\ entry = "none"
    /\ form_name = <<>>
    /\ file = NoFile
    /\ output_path = <<>>
    /\ reader = "none"
    /\ fmt = "none"
    /\ mappings = NoJson
    /\ fs = NoFiles
    /\ filled = 0
    /\ field_positions = <<>>
    /\ result = NoResult
    /\ served = <<>>
    /\ error = NoError
    /\ calls = <<>>
    /\ pdf_states = <<>>
    /\ writes = <<>>

\* the error is caught and the request goes on to its summary
FailSwallowed(stage, kind) == pc' = "summary" /\ error' = Err(stage, kind)

\* the request ends with an error: nothing else changes
Fail(stage, kind) == pc' = "failed" /\ error' = Err(stage, kind)

\* the extensions the /fill endpoint lets through
ApiAccepts(ext) == ext \in {Ext_xlsx, Ext_docx, Ext_pdf}

\* POST /fill, up to the call of fill_form: the extension check, the master
\* data, the upload saved under its own name, the output path
ApiFill ==
    /\ pc = "idle"
    /\ \E name \in FormNames, master_ok \in BOOLEAN :
        \E f \in FilesNamed(name) :
            /\ entry' = "api"
            /\ form_name' = name
            /\ file' = f
            /\ IF ~ApiAccepts(Lower(Suffix(name)))
               THEN Fail("fill", "HTTP 400 unsupported format") /\ UNCHANGED output_path
               ELSE IF ~master_ok
               THEN Fail("fill", "HTTP 500 no master data") /\ UNCHANGED output_path
               ELSE /\ pc' = "read_form"
                    /\ output_path' = <<"FILLED_">> \o name
                    /\ UNCHANGED error
    /\ UNCHANGED <<reader, fmt, mappings, fs, filled, field_positions, result,
                   served, calls, pdf_states, writes>>

\* the command line, up to the read of the form: the default output path and
\* the load of the master data in fill_form
CliMain ==
    /\ pc = "idle"
    /\ \E name \in FormNames, master_ok \in BOOLEAN :
        \E f \in FilesNamed(name) :
            /\ entry' = "cli"
            /\ form_name' = name
            /\ file' = f
            /\ output_path' = Stem(name) \o <<"_FILLED">> \o Suffix(name)
            /\ IF ~master_ok
               THEN Fail("master", "OSError")
               ELSE pc' = "read_form" /\ UNCHANGED error
    /\ UNCHANGED <<reader, fmt, mappings, fs, filled, field_positions, result,
                   served, calls, pdf_states, writes>>

\* the dispatch of read_form on the lowered extension
ReaderOf(ext) ==
    IF ext = Ext_xlsx THEN "_read_xlsx"
    ELSE IF ext \in {Ext_docx, Ext_doc} THEN "_read_docx"
    ELSE IF ext = Ext_pdf THEN "_read_pdf"
    ELSE "none"

\* the "format" entry each reader returns
FormatOf(r) ==
    IF r = "_read_xlsx" THEN "xlsx" ELSE IF r = "_read_docx" THEN "docx" ELSE "pdf"

\* step 1 of fill_form: read_form and the reader it dispatches to
ReadForm ==
    /\ pc = "read_form"
    /\ calls' = Append(calls, "read")
    /\ LET r == ReaderOf(Lower(Suffix(form_name)))
       IN /\ reader' = r
          /\ IF r = "none"
             THEN Fail("read", "ValueError unsupported file format") /\ UNCHANGED fmt
             ELSE IF file.corrupt \/ file.kind # FormatOf(r)
             THEN Fail("read", "corrupt document") /\ UNCHANGED fmt
             ELSE pc' = "map_fields" /\ fmt' = FormatOf(r) /\ UNCHANGED error
    /\ UNCHANGED <<entry, form_name, file, output_path, mappings, fs, filled,
                   field_positions, result, served, pdf_states, writes>>

\* what the service's answer makes of the request
Answer(response) ==
    LET r == map_fields(response)
    IN IF r.ok
       THEN pc' = "count" /\ mappings' = r.value /\ UNCHANGED error
       ELSE Fail("map", "response not parseable") /\ UNCHANGED mappings

\* step 2 of fill_form: map_fields, one call of the service
MapFields ==
    /\ pc = "map_fields"
    /\ calls' = Append(calls, "map")
    /\ \/ Fail("map", "service call failed") /\ UNCHANGED mappings
       \/ \E ms \in MappingSeqs(fmt), w \in 1..7 : Answer(Wrappings(JArray(ms))[w])
       \/ \E j \in OtherJson, w \in 1..7 : Answer(Wrappings(j)[w])
    /\ UNCHANGED <<entry, form_name, file, output_path, reader, fmt, fs, filled,
                   field_positions, result, served, pdf_states, writes>>

\* total_fields and fillable of fill_form: len() and m.get() on what
\* map_fields returned
CountFields ==
    /\ pc = "count"
    /\ IF Countable(mappings)
       THEN pc' = "write" /\ UNCHANGED error
       ELSE Fail("count", "TypeError or AttributeError")
    /\ UNCHANGED <<entry, form_name, file, output_path, reader, fmt, mappings, fs,
                   filled, field_positions, result, served, calls, pdf_states,
                   writes>>

\* a file is written
Written(by, path, content) ==
    /\ fs' = (path :> content) @@ fs
    /\ writes' = Append(writes, [by |-> by, path |-> path])

\* step 3 for a spreadsheet: fill_xlsx
FillXlsx ==
    /\ pc = "write" /\ fmt = "xlsx"
    /\ calls' = Append(calls, "write")
    /\ LET r == fill_xlsx(file.body, Items(mappings))
       IN /\ Written("fill_xlsx", output_path, File("xlsx", FALSE, r.wb))
          /\ filled' = r.filled
    /\ pc' = "summary"
    /\ UNCHANGED <<entry, form_name, file, output_path, reader, fmt, mappings,
                   field_positions, result, served, error, pdf_states>>

\* step 3 for a word-processor document: fill_docx
FillDocx ==
    /\ pc = "write" /\ fmt = "docx"
    /\ calls' = Append(calls, "write")
    /\ LET r == fill_docx(file.body, Items(mappings))
       IN /\ Written("fill_docx", output_path, File("docx", FALSE, r.document))
          /\ filled' = r.filled
    /\ pc' = "summary"
    /\ UNCHANGED <<entry, form_name, file, output_path, reader, fmt, mappings,
                   field_positions, result, served, error, pdf_states>>

\* the branch of fill_pdf: the state it enters first
FirstPdfState(pdf) == IF pdf.fields # <<>> THEN "pdf_fields" ELSE "pdf_overlay"

\* step 3 for a fixed-layout page: fill_pdf opens the input and branches
FillPdf ==
    /\ pc = "write" /\ fmt = "pdf"
    /\ calls' = Append(calls, "write")
    /\ pc' = FirstPdfState(file.body)
    /\ UNCHANGED <<entry, form_name, file, output_path, reader, fmt, mappings, fs,
                   filled, field_positions, result, served, error, pdf_states,
                   writes>>

\* the writer fails before it has written anything (the input cannot be
\* loaded, the output cannot be created)
WriterFails ==
    /\ pc = "write"
    /\ calls' = Append(calls, "write")
    /\ Fail("write", "OSError")
    /\ UNCHANGED <<entry, form_name, file, output_path, reader, fmt, mappings, fs,
                   filled, field_positions, result, served, pdf_states, writes>>

\* the interactive-fields state: _fill_pdf_fields
FillPdfFields ==
    /\ pc = "pdf_fields"
    /\ pdf_states' = Append(pdf_states, "fields")
    /\ LET r == fill_pdf_fields(file.body, Items(mappings))
       IN /\ Written("fields", output_path, File("pdf", FALSE, r.pdf))
          /\ filled' = r.filled
    /\ pc' = "summary"
    /\ UNCHANGED <<entry, form_name, file, output_path, reader, fmt, mappings,
                   field_positions, result, served, error, calls>>

\* _fill_pdf_overlay without its guide branch
AfterDetectionNoGuide(positions) == "summary"

\* where _fill_pdf_overlay goes once the positions are recorded
AfterDetection(positions) == IF positions = <<>> THEN "pdf_guide" ELSE "summary"

\* the geometric-overlay state: _fill_pdf_overlay up to the test of
\* field_positions, and the overlay when there are positions
FillPdfOverlay ==
    /\ pc = "pdf_overlay"
    /\ pdf_states' = Append(pdf_states, "overlay")
    /\ LET positions == FieldPositions(file.body, Items(mappings))
       IN /\ field_positions' = positions
          /\ pc' = AfterDetection(positions)
          /\ IF AfterDetection(positions) = "summary"
             THEN /\ Written("overlay", output_path,
                             File("pdf", FALSE,
                                  [file.body EXCEPT
                                      !.values = OverlayDrawn(file.body, positions)]))
                  /\ filled' = Len(positions)
             ELSE UNCHANGED <<fs, writes, filled>>
    /\ UNCHANGED <<entry, form_name, file, output_path, reader, fmt, mappings,
                   result, served, error, calls>>

\* the fill-guide state: the guide is written, then the input is copied to
\* the output path
FillPdfGuide ==
    /\ pc = "pdf_guide"
    /\ pdf_states' = Append(pdf_states, "guide")
    /\ LET guide_path == GuidePath(output_path)
           guide == File("guide", FALSE, GuideLines(Items(mappings)))
       IN /\ fs' = (output_path :> file) @@ (guide_path :> guide) @@ fs
          /\ writes' = writes \o <<[by |-> "guide", path |-> guide_path],
                                   [by |-> "guide", path |-> output_path]>>
    /\ filled' = GuideFilled(Items(mappings))
    /\ pc' = "summary"
    /\ UNCHANGED <<entry, form_name, file, output_path, reader, fmt, mappings,
                   field_positions, result, served, error, calls>>

\* the unmatched labels without the comparison with the "null" sentinel
MissingNoSentinel(ms) ==
    LET missing == SelectSeq(ms, LAMBDA m : ~UsableNoSentinel(m.value))
    IN [i \in 1..Len(missing) |-> missing[i].form_label]

\* the labels of the mappings without a usable value
Missing(ms) ==
    LET missing == SelectSeq(ms, LAMBDA m : ~Usable(m.value))
    IN [i \in 1..Len(missing) |-> missing[i].form_label]

\* the end of fill_form: the summary
Summary ==
    /\ pc = "summary"
    /\ result' = [returned |-> TRUE, output_path |-> output_path, format |-> fmt,
                  total_fields |-> mappings.size, filled |-> filled,
                  missing |-> Missing(Items(mappings))]
    /\ pc' = IF entry = "api" THEN "respond" ELSE "done"
    /\ UNCHANGED <<entry, form_name, file, output_path, reader, fmt, mappings, fs,
                   filled, field_positions, served, error, calls, pdf_states,
                   writes>>

\* the end of POST /fill: the file the endpoint answers with
ApiRespond ==
    /\ pc = "respond"
    /\ IF output_path \in DOMAIN fs
       THEN served' = output_path /\ pc' = "done" /\ UNCHANGED error
       ELSE IF GuidePath(output_path) \in DOMAIN fs
       THEN served' = GuidePath(output_path) /\ pc' = "done" /\ UNCHANGED error
       ELSE Fail("fill", "HTTP 500 no output generated") /\ UNCHANGED served
    /\ UNCHANGED <<entry, form_name, file, output_path, reader, fmt, mappings, fs,
                   filled, field_positions, result, calls, pdf_states, writes>>

Next ==
    \/ ApiFill
    \/ CliMain
    \/ ReadForm
    \/ MapFields
    \/ CountFields
    \/ FillXlsx
    \/ FillDocx
    \/ FillPdf
    \/ WriterFails
    \/ FillPdfFields
    \/ FillPdfOverlay
    \/ FillPdfGuide
    \/ Summary
    \/ ApiRespond

Spec == Init /\ [][Next]_vars

\* -------------------------------------------------------------- the claims

\* the writer has returned
Filled == pc \in {"summary", "respond", "done"}

\* a mapping without an answer: its value is absent, empty or "null"
NoAnswer(m) == m.value = None \/ m.value = <<>> \/ m.value = NullText

WithAnswers(ms) == SelectSeq(ms, LAMBDA m : ~NoAnswer(m))

\* the document fill_pdf leaves at the output path
PdfOutput(pdf, ms) ==
    IF pdf.fields # <<>> THEN fill_pdf_fields(pdf, ms).pdf
    ELSE IF FieldPositions(pdf, ms) # <<>>
         THEN [pdf EXCEPT !.values = OverlayDrawn(pdf, FieldPositions(pdf, ms))]
         ELSE pdf

\* the document the writer of the file's format leaves at the output path
WriterOutput(f, ms) ==
    IF f.kind = "xlsx" THEN File("xlsx", FALSE, fill_xlsx(f.body, ms).wb)
    ELSE IF f.kind = "docx" THEN File("docx", FALSE, fill_docx(f.body, ms).document)
    ELSE File("pdf", FALSE, PdfOutput(f.body, ms))

\* C1: a mapping whose value is absent, empty or "null" never causes a write:
\* whatever writer ran, the output document is the one the writer produces
\* from the mapping sequence without those mappings, and it is the input
\* document when no mapping has an answer.
C1_NoAnswerNeverWritten ==
    Filled =>
        /\ fs[output_path] = WriterOutput(file, WithAnswers(Items(mappings)))
        /\ (WithAnswers(Items(mappings)) = <<>> => fs[output_path] = file)

\* a sheet was filled from a sequence that holds a "null" mapping for B1 and
\* a mapping with an answer: B1 is still empty and another cell was written
C1_Witness ==
    /\ Filled /\ fmt = "xlsx"
    /\ \E i \in 1..Len(Items(mappings)) :
          Items(mappings)[i].form_cell = B1 /\ Items(mappings)[i].value = NullText
    /\ fs[output_path].body.cells[<<1, 2>>] = None
    /\ fs[output_path].body.cells[<<3, 2>>] = Acme
    /\ file.body.cells[<<3, 2>>] = None

\* the mappings of the sequence that name the cell rc and carry an answer
Targeting(ms, rc) ==
    {i \in 1..Len(ms) :
        /\ ms[i].form_cell # None /\ ms[i].form_cell # <<>>
        /\ CoordinateToTuple(ms[i].form_cell) = rc
        /\ ~NoAnswer(ms[i])}

\* C2 (as the specification states it): the location a confidence-"none"
\* mapping targets is the same in the output as in the input, also when the
\* mapping carries a value: the cell it names, unless a mapping of another
\* confidence names that cell too, and the whole document when every mapping
\* has confidence "none".
C2_ConfidenceNoneUntouched ==
    Filled =>
        /\ (fmt = "xlsx" =>
              \A i \in 1..Len(Items(mappings)) :
                 LET m == Items(mappings)[i]
                     rc == CoordinateToTuple(m.form_cell)
                 IN (/\ m.confidence = "none"
                     /\ m.form_cell # None
                     /\ \A j \in Targeting(Items(mappings), rc) :
                           Items(mappings)[j].confidence = "none")
                    => fs[output_path].body.cells[rc] = file.body.cells[rc])
        /\ ((\A i \in 1..Len(Items(mappings)) : Items(mappings)[i].confidence = "none")
              => fs[output_path] = file)

\* the cells the sequence names with an answer
Targets(ms) == {rc \in SheetCoords : Targeting(ms, rc) # {}}

\* a merged range that holds a target coordinate other than its anchor
Affected(mc, ms) == \E rc \in Targets(ms) \cap RangeCells(mc) : ~IsAnchor(mc, rc)

\* C3: after fill_xlsx the merged ranges are those of the input minus exactly
\* the ranges that hold a target coordinate other than their top-left anchor.
C3_UnmergeExactlyAffected ==
    (Filled /\ fmt = "xlsx") =>
        fs[output_path].body.merged =
            {mc \in file.body.merged : ~Affected(mc, Items(mappings))}

\* A1 is filled and A1:B1 stays merged; B3 is filled and B2:B3 is unmerged
C3_Witness ==
    /\ Filled /\ fmt = "xlsx"
    /\ {<<1, 1>>, <<3, 2>>} \subseteq Targets(Items(mappings))
    /\ CellRange(1, 1, 1, 2) \in fs[output_path].body.merged
    /\ CellRange(2, 2, 3, 2) \in file.body.merged
    /\ CellRange(2, 2, 3, 2) \notin fs[output_path].body.merged

\* the run of fill_pdf went through the fill-guide state
GuideState == Filled /\ fmt = "pdf" /\ pdf_states = <<"overlay", "guide">>

\* C4 (as the specification states it): the fill-guide state leaves two
\* distinct files, the copy of the input at the output path and the guide
\* with one line per mapping.
C4_GuideAndCopy ==
    GuideState =>
        /\ output_path \in DOMAIN fs
        /\ fs[output_path] = file
        /\ \E g \in DOMAIN fs :
              /\ g # output_path
              /\ fs[g].kind = "guide"
              /\ Len(fs[g].body) = Len(Items(mappings))
              /\ \A i \in 1..Len(Items(mappings)) :
                    /\ fs[g].body[i].label = Items(mappings)[i].form_label
                    /\ fs[g].body[i].value =
                          IF NoAnswer(Items(mappings)[i])
                          THEN <<"[NOT FOUND]">>
                          ELSE Items(mappings)[i].value

\* the steps of fill_pdf that wrote a file
Writers == {writes[i].by : i \in 1..Len(writes)}

\* where fill_pdf stands: before its branch, in one of its three states, or
\* returned
PdfRank(p) ==
    CASE p = "write" -> 0
      [] p = "pdf_fields" -> 1
      [] p = "pdf_overlay" -> 2
      [] p = "pdf_guide" -> 3
      [] OTHER -> 4

\* C5: fill_pdf goes through its states forward only and writes in exactly
\* one: with interactive fields only the fields state, whatever it filled;
\* without them the overlay state, and after it the guide state exactly when
\* the overlay recorded no position; every step taken in a state leaves it
\* for a later one or for the return, and no state is entered twice.
C5_ForwardOnly ==
    /\ [](fmt = "pdf" =>
           /\ pdf_states \in {<<>>, <<"fields">>, <<"overlay">>, <<"overlay", "guide">>}
           /\ (pc = "pdf_fields" => pdf_states = <<>> /\ file.body.fields # <<>>)
           /\ (pc = "pdf_overlay" => pdf_states = <<>> /\ file.body.fields = <<>>)
           /\ (pc = "pdf_guide" => pdf_states = <<"overlay">> /\ field_positions = <<>>)
           /\ (pdf_states # <<>> => (pdf_states[1] = "fields" <=> file.body.fields # <<>>))
           /\ (Filled =>
                 /\ pdf_states # <<>>
                 /\ Writers = {pdf_states[Len(pdf_states)]}
                 /\ (pdf_states = <<"overlay">> <=>
                       (file.body.fields = <<>> /\ field_positions # <<>>))
                 /\ (pdf_states = <<"overlay", "guide">> <=>
                       (file.body.fields = <<>> /\ field_positions = <<>>))))
    /\ [][(fmt = "pdf" /\ PdfRank(pc) \in 1..3) =>
             /\ PdfRank(pc') > PdfRank(pc)
             /\ pc' \in {"pdf_guide", "summary"}
             /\ Len(pdf_states') = Len(pdf_states) + 1]_vars

\* a document with interactive fields of which none was filled: the run ended
\* in the fields state
C5_Witness ==
    /\ pc = "done" /\ fmt = "pdf"
    /\ pdf_states = <<"fields">>
    /\ filled = 0
    /\ \E i \in 1..Len(Items(mappings)) : ~NoAnswer(Items(mappings)[i])

\* C6 (as the specification states it): when the output is the unmodified
\* copy of the fill-guide state, the count fill_pdf returns and the count in
\* fill_form's result are 0.
C6_GuideClaimsNothing ==
    (GuideState /\ fs[output_path] = file) =>
        /\ filled = 0
        /\ (result.returned => result.filled = 0)

\* C7 (as the specification states it): map_fields returns only a top-level
\* array, and a writer is invoked only with an array.
C7_OnlyArrays ==
    /\ (pc = "count" => mappings.kind = "array")
    /\ (\E i \in 1..Len(calls) : calls[i] = "write") => mappings.kind = "array"

\* the three supported extensions
Supported == {Ext_xlsx, Ext_docx, Ext_pdf}

\* C8 (as the specification states it): an extension outside .xlsx, .docx,
\* .pdf is rejected by read_form and by the endpoint before a reader is
\* dispatched, the service is called or a file is written.
C8_UnsupportedRejected ==
    (entry # "none" /\ Lower(Suffix(form_name)) \notin Supported) =>
        /\ reader = "none"
        /\ pc \in {"read_form", "failed"}
        /\ ~\E i \in 1..Len(calls) : calls[i] \in {"map", "write"}
        /\ writes = <<>>

IsPrefix(a, b) == Len(a) <= Len(b) /\ SubSeq(b, 1, Len(a)) = a

\* C9: within one fill_form the stages run in the order read, map, write, each
\* at most once; the service is called only after the reader returned, a
\* writer only after map_fields returned; after a failure no stage runs, no
\* file is written and no summary is returned.
C9_LinearFailFast ==
    /\ [](/\ IsPrefix(calls, <<"read", "map", "write">>)
          /\ (Len(calls) >= 2 => fmt # "none")
          /\ (Len(calls) >= 3 => mappings.kind # "none")
          /\ (result.returned => calls = <<"read", "map", "write">> /\ error = NoError)
          /\ (pc = "failed" =>
                /\ ~result.returned
                /\ writes = <<>>
                /\ calls = (CASE error.stage \in {"fill", "master"} -> <<>>
                              [] error.stage = "read" -> <<"read">>
                              [] error.stage \in {"map", "count"} -> <<"read", "map">>
                              [] error.stage = "write" -> <<"read", "map", "write">>)))
    /\ [][pc = "failed" => UNCHANGED vars]_vars

\* the service's answer could not be parsed: read and map ran, no writer did
C9_Witness ==
    /\ pc = "failed" /\ error = Err("map", "response not parseable")
    /\ calls = <<"read", "map">>

\* the value of the last mapping with an answer that names the cell
LastValue(ms, rc) ==
    ms[CHOOSE i \in Targeting(ms, rc) : \A j \in Targeting(ms, rc) : j <= i].value

NonEmpty(cells) == {rc \in SheetCoords : cells[rc] # None}

\* C10: after fill_xlsx every cell a mapping with an answer names reads the
\* value of the last such mapping, every other cell reads what it read before,
\* and the count is the number of cells written; one mapping on a blank sheet
\* makes its cell read the value and adds one non-empty cell.
C10_LastWinsAndCount ==
    (Filled /\ fmt = "xlsx") =>
        LET ms == Items(mappings)
            out == fs[output_path].body.cells
        IN /\ \A rc \in SheetCoords :
                 out[rc] = IF rc \in Targets(ms) THEN LastValue(ms, rc)
                           ELSE file.body.cells[rc]
           /\ filled = Cardinality(Targets(ms))
           /\ (Len(ms) = 1 /\ Targets(ms) # {} /\ NonEmpty(file.body.cells) = {}
                 => /\ Cardinality(NonEmpty(out)) = 1
                    /\ \A rc \in Targets(ms) : out[rc] = ms[1].value)

\* two mappings with different answers name B3: B3 reads the second
C10_Witness ==
    /\ Filled /\ fmt = "xlsx"
    /\ Len(Items(mappings)) = 2
    /\ Targeting(Items(mappings), <<3, 2>>) = {1, 2}
    /\ Items(mappings)[1].value # Items(mappings)[2].value
    /\ fs[output_path].body.cells[<<3, 2>>] = Items(mappings)[2].value
    /\ filled = 1

\* ------------------------------------------- word-processor table strategy

\* the text the table strategy compares with the labels: cell.text stripped,
\* lowered, without its trailing colons
LabelText(cell) == RStripColon(Lower(Strip(CellText(cell))))

\* the value of the label a cell's text matches (None: it matches no label)
LabelValue(cell, ms) ==
    IF LabelText(cell) = <<>> THEN None
    ELSE MatchedValue(DocxLabelMap(ms), LabelText(cell))

\* the places <<table, row, i>> of a document's tables where unique cell i
\* matches a label and has a next unique cell in its row
LabelPlaces(tables, ms) ==
    { pl \in UNION { UNION { { <<t, r, i>> : i \in 1..(Len(UniqueCells(tables[t][r].tcs)) - 1) }
                             : r \in 1..Len(tables[t]) }
                     : t \in 1..Len(tables) } :
        LabelValue(tables[pl[1]][pl[2]].cells[UniqueCells(tables[pl[1]][pl[2]].tcs)[pl[3]]],
                   ms) # None }

\* the tc of the unique cell after unique cell i of a row
NextCell(row, i) == UniqueCells(row.tcs)[i + 1]

HoldsColon(cell) == Contains(<<":">>, CellText(cell))

\* the cell reads exactly v and v stands in one run, every other run empty
WrittenOnce(cell, v) ==
    /\ CellText(cell) = v
    /\ Cardinality({ pr \in UNION { { <<p, r>> : r \in 1..Len(cell[p]) } : p \in 1..Len(cell) } :
                        cell[pr[1]][pr[2]] # <<>> }) = 1

\* the places whose next cell holds no colon
AnswerPlaces(tables, ms) ==
    { pl \in LabelPlaces(tables, ms) :
        ~HoldsColon(tables[pl[1]][pl[2]].cells[NextCell(tables[pl[1]][pl[2]], pl[3])]) }

\* C11: in the table strategy, for every row and every unique cell whose text
\* matches a label with value v: when the next unique cell of the row holds no
\* colon, after the fill that cell reads exactly v, written once with its
\* previous runs cleared, and the count rises by one; when the next cell holds
\* a colon it is left as it was and nothing is counted.
C11_AnswerCellReadsValue ==
    (Filled /\ fmt = "docx") =>
        LET ms == Items(mappings)
            tin == file.body.tables
            tout == fs[output_path].body.tables
        IN /\ \A pl \in LabelPlaces(tin, ms) :
                 LET row == tin[pl[1]][pl[2]]
                     next == NextCell(row, pl[3])
                     v == LabelValue(row.cells[UniqueCells(row.tcs)[pl[3]]], ms)
                 IN IF HoldsColon(row.cells[next])
                    THEN tout[pl[1]][pl[2]].cells[next] = row.cells[next]
                    ELSE WrittenOnce(tout[pl[1]][pl[2]].cells[next], v)
           /\ filled = Cardinality(AnswerPlaces(tin, ms))
                       + FillParas(file.body.paragraphs, DocxLabelMap(ms), 0).filled

\* ------------------------------------------------------------ the summary

\* the indices of the mappings without an answer
Unanswered(ms) == {i \in 1..Len(ms) : NoAnswer(ms[i])}

\* the k-th index of a set of indices, in increasing order
KthOf(idx, k) == CHOOSE i \in idx : Cardinality({j \in idx : j < i}) = k - 1

\* C12: the summary of fill_form partitions the mapping sequence: the total
\* is the number of mappings the service returned, the unmatched list holds,
\* in source order, the labels of exactly the mappings whose value is absent,
\* empty or "null", and the total is the number of mappings with a usable
\* value plus the length of the unmatched list, whatever the format.
C12_SummaryPartitions ==
    result.returned =>
        LET ms == Items(mappings)
        IN /\ result.format = fmt
           /\ result.total_fields = Len(ms)
           /\ Len(result.missing) = Cardinality(Unanswered(ms))
           /\ \A k \in 1..Len(result.missing) :
                 result.missing[k] = ms[KthOf(Unanswered(ms), k)].form_label
           /\ result.total_fields
                 = Cardinality({i \in 1..Len(ms) : ~NoAnswer(ms[i])})
                   + Len(result.missing)

\* a summary over a "null" mapping followed by a mapping with an answer: one
\* unmatched label, the first mapping's, and a total of two
C12_Witness ==
    /\ result.returned
    /\ Len(Items(mappings)) = 2
    /\ Items(mappings)[1].value = NullText
    /\ ~NoAnswer(Items(mappings)[2])
    /\ result.missing = <<Items(mappings)[1].form_label>>
    /\ result.total_fields = 2

\* ------------------------------------------------ writes of the table fill

\* the cells of a row that read otherwise after the fill than before
ChangedCells(row_in, row_out) ==
    {tc \in 1..Len(row_in.cells) : row_out.cells[tc] # row_in.cells[tc]}

\* the unique cells of a row, but the last, whose text matches a label
LabelCells(row, ms) ==
    {i \in 1..(Len(UniqueCells(row.tcs)) - 1) :
        LabelValue(row.cells[UniqueCells(row.tcs)[i]], ms) # None}

\* C13: in the table strategy a cell is written only if the unique cell just
\* before it in its row held, in the input document, text that matches a
\* label; a value written during the fill is never matched as a label, so a
\* row has at most one write per label cell and no write cascades.
C13_WritesOnlyAfterInputLabels ==
    (Filled /\ fmt = "docx") =>
        \A t \in 1..Len(file.body.tables) :
            \A r \in 1..Len(file.body.tables[t]) :
                LET row == file.body.tables[t][r]
                    changed == ChangedCells(row, fs[output_path].body.tables[t][r])
                IN /\ \A tc \in changed :
                         \E i \in LabelCells(row, Items(mappings)) : NextCell(row, i) = tc
                   /\ Cardinality(changed) <= Cardinality(LabelCells(row, Items(mappings)))

\* ------------------------------------------- deduplication of the overlay

\* the positions the detection records on page i (0-based) taken alone
PagePositions(pdf, ms, i) ==
    MatchTables(pdf.pages[i + 1].tables, OverlayLabelMap(ms),
                [index |-> i, height |-> pdf.pages[i + 1].height,
                 width |-> pdf.pages[i + 1].width],
                <<>>)

\* the positions recorded when a candidate is dropped only for a recorded
\* position of its own page
SamePageDedup(pdf, ms) ==
    Concat([i \in 1..Len(pdf.pages) |-> PagePositions(pdf, ms, i - 1)])

WithinTolerance(a, b) ==
    Abs(a.x - b.x) < DupeTolerance /\ Abs(a.y - b.y) < DupeTolerance

\* C14: in the overlay state a candidate position is dropped only if a
\* recorded position of the same page lies within 5 units of it in x and in
\* y: no two recorded positions of one page are within that tolerance, and an
\* answer slot of one page is never suppressed by a position recorded on
\* another page.
C14_DedupWithinPage ==
    (Filled /\ fmt = "pdf" /\ file.body.fields = <<>>) =>
        /\ \A a, b \in 1..Len(field_positions) :
              (a # b /\ field_positions[a].page = field_positions[b].page)
                 => ~WithinTolerance(field_positions[a], field_positions[b])
        /\ field_positions = SamePageDedup(file.body, Items(mappings))

====
